---- MODULE Spec2Model ----
(***************************************************************************)
(* A model of the training glue of applications/pytorch/cnns:              *)
(*   - train/train.py: train(), the epoch/batch loop with its loss-scaling *)
(*     schedule, optimizer pushes, logging, validation and checkpoints;    *)
(*   - datasets/augmentations.py: the mixup/cutmix coefficient samplers,   *)
(*     the mixer and the label weights.                                    *)
(* Three state machines share the module: Spec (one process running        *)
(* train()), SpecDist (the processes of a distributed run, epoch by epoch) *)
(* and SpecAug / SpecMix (the augmentation pipeline).                      *)
(***************************************************************************)
EXTENDS Integers, Sequences, FiniteSets, TLC

(***************************************************************************)
(* Bounds of the model.                                                    *)
(***************************************************************************)
\* opts.epoch ranges over 1..MaxEpoch
MaxEpoch == 3
\* opts.loss_scaling ranges up to MaxLossScaling
MaxLossScaling == 4
\* len(training_data) ranges over 1..MaxIterations
MaxIterations == 3
\* opts.logs_per_epoch ranges over 1..MaxLogsPerEpoch
MaxLogsPerEpoch == 3
\* opts.validation_frequency ranges over 1..MaxValidationFrequency
MaxValidationFrequency == 2
\* a distributed run has 1..MaxHosts hosts
MaxHosts == 2
\* each host of a distributed run has 1..MaxLocalSize processes
MaxLocalSize == 2
\* opts.epoch of a distributed run ranges over 1..MaxDistEpoch
MaxDistEpoch == 2
\* tensors hold floats with MantissaBits significant bits (float32 has 24)
MantissaBits == 2
\* a batch of the augmentation pipeline has 1..MaxBatch images
MaxBatch == 4
\* images are 1..MaxDim pixels high and wide
MaxDim == 2
\* the batches whose coefficients are drawn exhaustively have 1..MaxMixBatch
\* samples
MaxMixBatch == 3

(***************************************************************************)
(* State of one process running train().                                   *)
(***************************************************************************)
VARIABLES
    opts,                 \* the configuration object
    iterations_per_epoch, \* len(training_data)
    validation_function,  \* TRUE iff a validation function was supplied
    pc,                   \* position in train()
    err,                  \* the exception that ended train(), or "none"
    epoch,                \* the loop variable of "for epoch in epochs"
    batch_idx,            \* the loop variable of the batch loop
    lr_scheduler,         \* lr_scheduler.get_last_lr()[0]
    optimizer,            \* the host optimizer object
    device,               \* the optimizer state the runtime holds
    old_lr,
    old_loss_scaling,
    new_loss_scaling,
    bar,                  \* "none", "plain" (training_data) or "tqdm"
    metrics,              \* utils.Metrics: the batch of the last saved value
    aggregated_loss,      \* local of train(): "unbound" or the batch it is as of
    aggregated_acc,       \* local of train(): "unbound" or the batch it is as of
    total_sample,
    steps_run,            \* training steps executed so far
    compiled,             \* training_model.compile was called
    last_batch,           \* what the last iteration of the batch loop did
    logs_this_epoch,      \* log_train_results calls in the current epoch
    checkpoints           \* the checkpoints torch.save has written

tvars == <<opts, iterations_per_epoch, validation_function, pc, err, epoch,
           batch_idx, lr_scheduler, optimizer, device, old_lr,
           old_loss_scaling, new_loss_scaling, bar, metrics, aggregated_loss,
           aggregated_acc, total_sample, steps_run, compiled, last_batch,
           logs_this_epoch, checkpoints>>

(***************************************************************************)
(* State of a distributed run: popdist_size processes, each running        *)
(* train(), followed epoch by epoch.                                       *)
(***************************************************************************)
VARIABLES
    topology,    \* hosts and processes per host of the run
    dist_opts,   \* the options all processes share
    dist_pc,     \* per rank: position in train()
    dist_epoch,  \* per rank: the epoch loop variable
    dist_bar,    \* per rank: "none", "plain" or "tqdm"
    dist_saved   \* the torch.save calls made: epoch, file name and rank

dvars == <<topology, dist_opts, dist_pc, dist_epoch, dist_bar, dist_saved>>

(***************************************************************************)
(* State of the augmentation pipeline: an AugmentationModel, the batch     *)
(* handed to it and what forward and mix_labels returned.                  *)
(***************************************************************************)
VARIABLES
    aug_pc,      \* "new", "constructed", "sampled", "forwarded", "mixed",
                 \* "failed"
    aug_err,     \* the exception raised, or "none"
    aug_args,    \* the arguments AugmentationModel was constructed with
    aug_model,   \* the fields of the AugmentationModel
    aug_input,   \* batch_and_coefficients: shape, np_type, mixup coefficients
    aug_cut,     \* what _sample_cutmix_coeff and _cutmix did in forward
    aug_output,  \* the batch forward hands to the wrapped model
    aug_coeffs,  \* the coefficient list forward returns
    aug_mixed    \* what mix_labels returned: all_labels and weights

avars == <<aug_pc, aug_err, aug_args, aug_model, aug_input, aug_cut,
           aug_output, aug_coeffs, aug_mixed>>

vars == <<tvars, dvars, avars>>

Pow2(n) == 2 ^ n

\* int(math.log2(x)) for an integer x >= 1
RECURSIVE Log2Floor(_)
Log2Floor(x) == IF x <= 1 THEN 0 ELSE 1 + Log2Floor(x \div 2)

SetMax(S) == CHOOSE x \in S : \A y \in S : y <= x

\* A variant of NumLossScalingSteps that rounds the logarithm up.
NumLossScalingSteps_Ceil(o) ==
    LET x == o.loss_scaling \div o.initial_loss_scaling
    IN  Log2Floor(x) + (IF Pow2(Log2Floor(x)) < x THEN 1 ELSE 0) + 1

\* train.py:80
NumLossScalingSteps(o) ==
    Log2Floor(o.loss_scaling \div o.initial_loss_scaling) + 1

\* train.py:81, the key of step i
LossScalingBoundary(o, i) == i * (o.epoch \div NumLossScalingSteps(o)) + 1

\* train.py:81, the dict: a later i overwrites an earlier one with the same key
LossScalingSteps(o) ==
    LET n == NumLossScalingSteps(o)
        keys == {LossScalingBoundary(o, i) : i \in 0 .. (n - 1)}
    IN  [k \in keys |->
            o.initial_loss_scaling *
            Pow2(SetMax({i \in 0 .. (n - 1) : LossScalingBoundary(o, i) = k}))]

\* train.py:77
NumInstances(o) == IF o.use_popdist THEN o.popdist_size ELSE 1

\* train.py:92, the condition under which the plain iterator is used
PlainBar(o) ==
    o.disable_metrics \/ (o.use_popdist /\ ~(o.popdist_rank = 0))

\* train.py:132
SetsDescription(o) == ~o.use_popdist \/ o.popdist_rank = 0

\* train.py:136
IsLoggingPoint(o, iters, b) ==
    ((b + 1) % (iters \div o.logs_per_epoch)) = 0

\* A variant of RunsValidation that ignores opts.validation_frequency.
RunsValidation_EveryEpoch(o, hasval, e) == hasval

\* train.py:139
RunsValidation(o, hasval, e) ==
    hasval /\ (e % o.validation_frequency) = 0

\* A variant of NeedsPush that looks at the learning rate only.
NeedsPush_LrOnly(nlr, olr, nls, ols) == nlr # olr

\* train.py:172
NeedsPush(nlr, olr, nls, ols) == nlr # olr \/ nls # ols

\* train.py:196
WritesCheckpoint(o) ==
    ~(o.checkpoint_path = "") /\ (~o.use_popdist \/ o.popdist_local_rank = 0)

\* train.py:199
CheckpointName(o, e) == <<o.model, o.data, e>>

\* What one iteration of the batch loop did (a record of the calls it made).
NoBatch == [epoch |-> 0, batch_idx |-> 0,
            stepped |-> FALSE,        \* training_model(input_data, labels) ran
            dev_before |-> [lr |-> 0, loss_scaling |-> 0],
                                      \* what the runtime held for that step
            saved |-> FALSE,          \* metrics.save_value was called
            described |-> FALSE,      \* bar.set_description was called
            logged |-> FALSE,         \* log_train_results was called
            logged_lr |-> 0, logged_ls |-> 0,
            validated |-> FALSE,      \* validation_function was called
            validation_accuracy |-> "none",
            completed |-> FALSE,      \* the iteration reached its end
            pushed |-> FALSE,         \* training_model.setOptimizer was called
            sched_lr |-> 0,           \* lr_scheduler.get_last_lr()[0], line 171
            sched_ls |-> 0]           \* new_loss_scaling at line 172

\* The learning rates the scheduler returns (two levels: changed or not).
LearningRates == {1, 2}

\* opts.initial_loss_scaling
InitialLossScalings == {1, 2}

\* (popdist_rank, popdist_local_rank) of the process, of popdist_size processes
PopdistIds == {<<0, 0>>, <<1, 0>>, <<1, 1>>}
PopdistSize == Cardinality({id[1] : id \in PopdistIds})

\* The options train() reads. An option the code never reads under the others
\* (logs_per_epoch and validation_frequency with metrics disabled, profile
\* under compile_only, the popdist ids without popdist) is held at one value.
Options ==
    {o \in [epoch : 1 .. MaxEpoch,
            initial_loss_scaling : InitialLossScalings,
            loss_scaling : 1 .. MaxLossScaling,
            disable_metrics : BOOLEAN,
            use_popdist : BOOLEAN,
            popdist_rank : {id[1] : id \in PopdistIds},
            popdist_local_rank : {id[2] : id \in PopdistIds},
            popdist_size : {1, PopdistSize},
            checkpoint_path : {"", "ckpt"},
            compile_only : BOOLEAN,
            profile : BOOLEAN,
            logs_per_epoch : 1 .. MaxLogsPerEpoch,
            validation_frequency : 1 .. MaxValidationFrequency,
            model : {"resnet"},
            data : {"imagenet"}] :
        /\ o.loss_scaling >= o.initial_loss_scaling
        /\ IF o.use_popdist
           THEN /\ <<o.popdist_rank, o.popdist_local_rank>> \in PopdistIds
                /\ o.popdist_size = PopdistSize
           ELSE /\ o.popdist_rank = 0
                /\ o.popdist_local_rank = 0
                /\ o.popdist_size = 1
        /\ o.compile_only => ~o.profile
        /\ o.disable_metrics =>
              o.logs_per_epoch = 1 /\ o.validation_frequency = 1}

\* The state train() starts from: get_optimizer built the optimizer with
\* loss_scaling = opts.initial_loss_scaling and poptorch.trainingModel took it.
TrainInit ==
    /\ opts \in Options
    /\ iterations_per_epoch \in 1 .. MaxIterations
    /\ validation_function \in BOOLEAN
    /\ ~validation_function => opts.validation_frequency = 1
    /\ opts.disable_metrics => ~validation_function
    /\ pc = "epoch_start"
    /\ err = "none"
    /\ epoch = 1
    /\ batch_idx = 0
    /\ lr_scheduler = 1
    /\ optimizer = [lr |-> lr_scheduler,
                    loss_scaling |-> opts.initial_loss_scaling]
    /\ device = optimizer
    /\ old_lr = lr_scheduler
    /\ old_loss_scaling = opts.initial_loss_scaling
    /\ new_loss_scaling = opts.initial_loss_scaling
    /\ bar = "none"
    /\ metrics = <<0, 0>>
    /\ aggregated_loss = "unbound"
    /\ aggregated_acc = "unbound"
    /\ total_sample = 0
    /\ steps_run = 0
    /\ compiled = FALSE
    /\ last_batch = NoBatch
    /\ logs_this_epoch = 0
    /\ checkpoints = {}

\* train.py:88-100: the head of the epoch loop
EpochStart ==
    /\ pc = "epoch_start"
    /\ bar' = IF PlainBar(opts) THEN "plain" ELSE "tqdm"
    /\ total_sample' = 0
    /\ new_loss_scaling' =
          IF epoch \in DOMAIN LossScalingSteps(opts)
          THEN LossScalingSteps(opts)[epoch]
          ELSE new_loss_scaling
    /\ batch_idx' = 0
    /\ logs_this_epoch' = 0
    /\ pc' = IF iterations_per_epoch = 0 THEN "epoch_end" ELSE "batch"
    /\ UNCHANGED <<opts, iterations_per_epoch, validation_function, err, epoch,
                   lr_scheduler, optimizer, device, old_lr, old_loss_scaling,
                   metrics, aggregated_loss, aggregated_acc, steps_run,
                   compiled, last_batch, checkpoints>>

\* train.py:106-109: --compile-only compiles and exits before any step
CompileAndExit ==
    /\ compiled' = TRUE
    /\ pc' = "exited"
    /\ last_batch' = [NoBatch EXCEPT !.epoch = epoch, !.batch_idx = batch_idx]
    /\ UNCHANGED <<opts, iterations_per_epoch, validation_function, err, epoch,
                   batch_idx, lr_scheduler, optimizer, device, old_lr,
                   old_loss_scaling, new_loss_scaling, bar, metrics,
                   aggregated_loss, aggregated_acc, total_sample, steps_run,
                   logs_this_epoch, checkpoints>>

\* train.py:111-114: --profile runs one step and exits
ProfileAndExit ==
    /\ steps_run' = steps_run + 1
    /\ pc' = "exited"
    /\ last_batch' = [NoBatch EXCEPT !.epoch = epoch, !.batch_idx = batch_idx,
                                     !.stepped = TRUE,
                                     !.dev_before = device]
    /\ UNCHANGED <<opts, iterations_per_epoch, validation_function, err, epoch,
                   batch_idx, lr_scheduler, optimizer, device, old_lr,
                   old_loss_scaling, new_loss_scaling, bar, metrics,
                   aggregated_loss, aggregated_acc, total_sample, compiled,
                   logs_this_epoch, checkpoints>>

\* A variant of the push that leaves optimizer.loss_scaling as it is.
PushedLossScaling_Kept(opt, new_ls, old_ls) == opt.loss_scaling

\* train.py:173-174: the loss_scaling field of the optimizer that is pushed
PushedLossScaling(opt, new_ls, old_ls) ==
    IF new_ls # old_ls THEN new_ls ELSE opt.loss_scaling

\* train.py:111-182: one full iteration of the batch loop; nlr is the learning
\* rate the scheduler returns at line 171
FullBatch(nlr) ==
    LET o == opts
        stamp == <<epoch, batch_idx + 1>>
        saves == ~o.disable_metrics
        \* line 136: the modulus is evaluated only with metrics enabled
        divides_by_zero ==
            saves /\ (iterations_per_epoch \div o.logs_per_epoch) = 0
        logs == saves /\ ~divides_by_zero
                      /\ IsLoggingPoint(o, iterations_per_epoch, batch_idx)
        validates == logs /\ RunsValidation(o, validation_function, epoch)
        push == NeedsPush(nlr, old_lr, new_loss_scaling, old_loss_scaling)
        opt1 == [lr |-> nlr,
                 loss_scaling |-> PushedLossScaling(optimizer,
                                                    new_loss_scaling,
                                                    old_loss_scaling)]
        ran == [NoBatch EXCEPT !.epoch = epoch, !.batch_idx = batch_idx,
                               !.stepped = TRUE,
                               !.dev_before = device,
                               !.saved = saves,
                               !.described = saves /\ SetsDescription(o)]
    IN  /\ steps_run' = steps_run + 1
        /\ metrics' = IF saves THEN stamp ELSE metrics
        /\ aggregated_loss' = IF saves THEN stamp ELSE aggregated_loss
        /\ aggregated_acc' = IF saves THEN stamp ELSE aggregated_acc
        /\ total_sample' = total_sample + NumInstances(o)
        /\ IF divides_by_zero
           THEN /\ pc' = "error"
                /\ err' = "ZeroDivisionError"
                /\ last_batch' = ran
                /\ UNCHANGED <<lr_scheduler, optimizer, device, old_lr,
                               old_loss_scaling, batch_idx, logs_this_epoch>>
           ELSE /\ logs_this_epoch' = logs_this_epoch + (IF logs THEN 1 ELSE 0)
                /\ lr_scheduler' = nlr
                /\ optimizer' = IF push THEN opt1
                                ELSE [optimizer EXCEPT !.lr = nlr]
                /\ device' = IF push THEN opt1 ELSE device
                /\ old_lr' = IF push THEN nlr ELSE old_lr
                /\ old_loss_scaling' =
                      IF push THEN new_loss_scaling ELSE old_loss_scaling
                /\ last_batch' =
                      [ran EXCEPT !.logged = logs,
                                  !.logged_lr = IF logs THEN old_lr ELSE 0,
                                  !.logged_ls =
                                      IF logs THEN old_loss_scaling ELSE 0,
                                  !.validated = validates,
                                  !.validation_accuracy =
                                      IF ~logs THEN "none"
                                      ELSE IF validates THEN "measured"
                                      ELSE "zero",
                                  !.completed = TRUE,
                                  !.pushed = push,
                                  !.sched_lr = nlr,
                                  !.sched_ls = new_loss_scaling]
                /\ batch_idx' = batch_idx + 1
                /\ pc' = IF batch_idx + 1 = iterations_per_epoch
                         THEN "epoch_end" ELSE "batch"
                /\ err' = err
        /\ UNCHANGED <<opts, iterations_per_epoch, validation_function, epoch,
                       new_loss_scaling, bar, compiled, checkpoints>>

\* train.py:101-182: the body of the batch loop
TrainBatch ==
    /\ pc = "batch"
    /\ IF opts.compile_only THEN CompileAndExit
       ELSE IF opts.profile THEN ProfileAndExit
       ELSE \E nlr \in LearningRates : FullBatch(nlr)

\* train.py:184-208: the tail of the epoch loop
EpochEnd ==
    /\ pc = "epoch_end"
    /\ LET acc == IF ~opts.disable_metrics THEN metrics ELSE aggregated_acc
           unbound == aggregated_loss = "unbound" \/ acc = "unbound"
       IN  /\ aggregated_acc' = acc
           /\ aggregated_loss' = aggregated_loss
           /\ IF WritesCheckpoint(opts) /\ unbound
              THEN /\ pc' = "error"
                   /\ err' = "UnboundLocalError"
                   /\ UNCHANGED <<epoch, checkpoints>>
              ELSE /\ checkpoints' =
                         IF WritesCheckpoint(opts)
                         THEN checkpoints \cup
                                  {[name |-> CheckpointName(opts, epoch),
                                    epoch |-> epoch,
                                    loss |-> aggregated_loss,
                                    train_accuracy |-> acc]}
                         ELSE checkpoints
                   /\ pc' = IF epoch = opts.epoch THEN "done" ELSE "epoch_start"
                   /\ epoch' = IF epoch = opts.epoch THEN epoch ELSE epoch + 1
                   /\ err' = err
    /\ UNCHANGED <<opts, iterations_per_epoch, validation_function, batch_idx,
                   lr_scheduler, optimizer, device, old_lr, old_loss_scaling,
                   new_loss_scaling, bar, metrics, total_sample, steps_run,
                   compiled, last_batch, logs_this_epoch>>

(***************************************************************************)
(* The distributed run. popdist numbers the processes host by host: the    *)
(* process with local rank l on host h has rank h * local_size + l.        *)
(***************************************************************************)
Ranks(t) == 0 .. (t.hosts * t.local_size - 1)

\* The options of the process with rank r: opts.popdist_rank,
\* opts.popdist_local_rank and opts.popdist_size as train() reads them.
ProcessOpts(t, o, r) ==
    [epoch |-> o.epoch,
     disable_metrics |-> o.disable_metrics,
     checkpoint_path |-> o.checkpoint_path,
     model |-> o.model,
     data |-> o.data,
     use_popdist |-> TRUE,
     popdist_rank |-> r,
     popdist_local_rank |-> r % t.local_size,
     popdist_size |-> t.hosts * t.local_size]

DistInit ==
    /\ topology \in [hosts : 1 .. MaxHosts, local_size : 1 .. MaxLocalSize]
    /\ dist_opts \in [epoch : 1 .. MaxDistEpoch,
                      disable_metrics : BOOLEAN,
                      checkpoint_path : {"", "ckpt"},
                      model : {"resnet"},
                      data : {"imagenet"}]
    /\ dist_pc = [r \in Ranks(topology) |-> "epoch_start"]
    /\ dist_epoch = [r \in Ranks(topology) |-> 1]
    /\ dist_bar = [r \in Ranks(topology) |-> "none"]
    /\ dist_saved = {}

\* train.py:88-182 on rank r: the bar is made and the batches run
DistRunEpoch(r) ==
    /\ dist_pc[r] = "epoch_start"
    /\ dist_bar' =
          [dist_bar EXCEPT ![r] =
              IF PlainBar(ProcessOpts(topology, dist_opts, r))
              THEN "plain" ELSE "tqdm"]
    /\ dist_pc' = [dist_pc EXCEPT ![r] = "sync"]
    /\ UNCHANGED <<topology, dist_opts, dist_epoch, dist_saved>>

\* train.py:190-192: utils.sync_metrics is a collective; every process waits
\* in it until all have entered it
DistSyncMetrics ==
    /\ \A r \in Ranks(topology) : dist_pc[r] = "sync"
    /\ dist_pc' = [r \in Ranks(topology) |-> "save"]
    /\ UNCHANGED <<topology, dist_opts, dist_epoch, dist_bar, dist_saved>>

\* train.py:195-208 on rank r; with metrics disabled aggregated_loss is unbound
DistSave(r) ==
    LET o == ProcessOpts(topology, dist_opts, r)
        e == dist_epoch[r]
    IN  /\ dist_pc[r] = "save"
        /\ IF WritesCheckpoint(o) /\ o.disable_metrics
           THEN /\ dist_pc' = [dist_pc EXCEPT ![r] = "error"]
                /\ UNCHANGED <<dist_epoch, dist_saved>>
           ELSE /\ dist_saved' =
                      IF WritesCheckpoint(o)
                      THEN dist_saved \cup
                              {[epoch |-> e, name |-> CheckpointName(o, e),
                                rank |-> r]}
                      ELSE dist_saved
                /\ dist_pc' =
                      [dist_pc EXCEPT ![r] =
                          IF e = o.epoch THEN "done" ELSE "epoch_start"]
                /\ dist_epoch' =
                      [dist_epoch EXCEPT ![r] =
                          IF e = o.epoch THEN e ELSE e + 1]
        /\ UNCHANGED <<topology, dist_opts, dist_bar>>

(***************************************************************************)
(* Floating point. A tensor element is a float with MantissaBits           *)
(* significant bits, round-to-nearest-even, held as an integer number of   *)
(* units: One units make 1.0, and one unit is half the spacing of the      *)
(* floats just below 1.0 (2^-25 in float32). Numbers below MantissaBits    *)
(* bits of units are spaced one unit apart (gradual underflow).            *)
(***************************************************************************)
One == Pow2(MantissaBits + 1)

RECURSIVE BitLen(_)
BitLen(x) == IF x = 0 THEN 0 ELSE 1 + BitLen(x \div 2)

\* The spacing of the floats around x units
Spacing(x, bits) == IF BitLen(x) <= bits THEN 1 ELSE Pow2(BitLen(x) - bits)

IsFloat(x, bits) == x % Spacing(x, bits) = 0

\* num / den units, rounded to the nearest float, a tie to the even one
RoundRatioTo(num, den, bits) ==
    LET Nearest(n, d) ==
            LET q == Spacing(n \div d, bits)
                k == n \div (d * q)
                rem == n - k * d * q
            IN  IF 2 * rem < d * q THEN k * q
                ELSE IF 2 * rem > d * q THEN (k + 1) * q
                ELSE IF k % 2 = 0 THEN k * q
                ELSE (k + 1) * q
    IN  CHOOSE r \in {Nearest(n, d) : n \in {num}, d \in {den}} : TRUE

RoundRatio(num, den) == RoundRatioTo(num, den, MantissaBits)

FAdd(a, b) == RoundRatio(a + b, 1)
FSub(a, b) == RoundRatio(a - b, 1)
FMul(a, b) == RoundRatio(a * b, One)

\* torch.sqrt, correctly rounded
FSqrt(a) ==
    LET Root(v) ==
            LET s == CHOOSE r \in 0 .. (v + One) :
                         r * r <= v * One /\ (r + 1) * (r + 1) > v * One
                q == Spacing(s, MantissaBits)
                k == s \div q
                mid2 == (2 * k + 1) * q
            IN  IF 4 * v * One < mid2 * mid2 THEN k * q
                ELSE IF 4 * v * One > mid2 * mid2 THEN (k + 1) * q
                ELSE IF k % 2 = 0 THEN k * q
                ELSE (k + 1) * q
    IN  CHOOSE r \in {Root(v) : v \in {a}} : TRUE

\* torch.round(...).to(torch.int32): to the nearest integer, a tie to the even
RoundToInt(a) ==
    LET Nearest(v) ==
            LET k == v \div One
                rem == v - k * One
            IN  IF 2 * rem < One THEN k
                ELSE IF 2 * rem > One THEN k + 1
                ELSE IF k % 2 = 0 THEN k
                ELSE k + 1
    IN  CHOOSE r \in {Nearest(v) : v \in {a}} : TRUE

\* The floats in [lo, hi] units
FloatsIn(lo, hi) == {x \in lo .. hi : IsFloat(x, MantissaBits)}

\* np.float16 has fewer significant bits than float32; np.float has more, and
\* holds every float32
NpBits(np_type) ==
    IF np_type = "float16" THEN MantissaBits - 1 ELSE MantissaBits + 1

(***************************************************************************)
(* datasets/augmentations.py                                               *)
(***************************************************************************)
Indices(n) == 0 .. (n - 1)

\* augmentations.py:153-155: torch.roll(tensor, shifts, dims=0)
Permute(tensor, shifts) ==
    [i \in DOMAIN tensor |->
        tensor[(i + shifts * Cardinality(DOMAIN tensor) - shifts)
               % Cardinality(DOMAIN tensor)]]

\* A variant of the reflection that keeps the smaller of x and 1 - x.
Reflect_Min(x) == IF x <= FSub(One, x) THEN x ELSE FSub(One, x)

\* augmentations.py:13: np.maximum(coefficients, 1.0 - coefficients)
Reflect(x) == IF x >= FSub(One, x) THEN x ELSE FSub(One, x)

\* augmentations.py:7-14: xs are the draws of random_generator.beta, numbers
\* of [0, 1] in units
SampleMixupCoefficients(xs, np_type) ==
    [i \in DOMAIN xs |->
        RoundRatioTo(Reflect(RoundRatio(xs[i], 1)), 1, NpBits(np_type))]

\* train.py:211-223: the tuple handed to the model
GetAugmentedSamples(mixup_enabled, shape, np_type, xs) ==
    [n |-> shape.n, height |-> shape.height, width |-> shape.width,
     np_type |-> np_type,
     mixup_coeffs |-> IF mixup_enabled
                      THEN SampleMixupCoefficients(xs, np_type)
                      ELSE <<>>]

\* The input batch: every pixel of image i holds 1.0 of source image i. A
\* pixel is the linear combination of the source images it is made of.
Source(n, i) == [j \in Indices(n) |-> IF j = i THEN One ELSE 0]

InputBatch(in) ==
    [i \in Indices(in.n) |->
        [y \in Indices(in.height) |->
            [x \in Indices(in.width) |-> Source(in.n, i)]]]

\* augmentations.py:65-67
Mixup(batch, coeffs) ==
    CHOOSE r \in
        {[i \in DOMAIN batch |->
             [y \in DOMAIN batch[i] |->
                 [x \in DOMAIN batch[i][y] |->
                     [j \in DOMAIN batch[i][y][x] |->
                         (coeffs[i] * batch[i][y][x][j]
                          + FSub(One, coeffs[i]) * rolled[i][y][x][j])
                         \div One]]]] :
            rolled \in {Permute(batch, 1)}} :
        TRUE

\* augmentations.py:71-83, along one axis of dim pixels: the cut box [lo, hi)
CutBox(dim, coeff, rand) ==
    LET Box(cut) ==
            LET half == RoundRatio(cut, 2)
                center == FAdd(FMul(FSub(dim * One, cut), rand), half)
            IN  [lo |-> RoundToInt(FSub(center, half)),
                 hi |-> RoundToInt(FAdd(center, half))]
    IN  CHOOSE box \in
            {Box(cut) :
                cut \in {FMul(dim * One, FSqrt(FSub(One, coeff)))}} :
            TRUE

\* A variant of InBox that takes the upper end of the box in.
InBox_Closed(box, p) == p >= box.lo /\ p <= box.hi

\* augmentations.py:88-89
InBox(box, p) == p >= box.lo /\ p < box.hi

\* augmentations.py:70-90
CutMask(height, width, coeff, rand_x, rand_y) ==
    CHOOSE mask \in
        {[y \in Indices(height) |->
             [x \in Indices(width) |-> InBox(bx, x) /\ InBox(by, y)]] :
            bx \in {CutBox(width, coeff, rand_x)},
            by \in {CutBox(height, coeff, rand_y)}} :
        TRUE

\* augmentations.py:92. The mean of the mask is its number of set pixels
\* over its size, rounded once (the sum of the pixels is exact).
MaskCoeff(mask) ==
    LET height == Cardinality(DOMAIN mask)
        width == Cardinality(DOMAIN mask[0])
        set == Cardinality({p \in Indices(height) \X Indices(width) :
                               mask[p[1]][p[2]]})
    IN  FSub(One, RoundRatio(set * One, height * width))

\* A variant of torch.where that takes a outside the mask and b inside.
Where_Swapped(mask, a, b) ==
    [i \in DOMAIN b |->
        [y \in DOMAIN mask |->
            [x \in DOMAIN mask[y] |->
                IF mask[y][x] THEN b[i][y][x] ELSE a[i][y][x]]]]

\* augmentations.py:93: torch.where(mask, a, b), the mask broadcast over the
\* batch
Where(mask, a, b) ==
    [i \in DOMAIN b |->
        [y \in DOMAIN mask |->
            [x \in DOMAIN mask[y] |->
                IF mask[y][x] THEN a[i][y][x] ELSE b[i][y][x]]]]

\* augmentations.py:69-94
Cutmix(batch, coeff, rand_x, rand_y) ==
    CHOOSE r \in
        {[batch |-> Where(mask, rolled, batch),
          coeff |-> MaskCoeff(mask),
          mask |-> mask] :
            mask \in {CutMask(Cardinality(DOMAIN batch[0]),
                              Cardinality(DOMAIN batch[0][0]),
                              coeff, rand_x, rand_y)},
            rolled \in {Permute(batch, 2)}} :
        TRUE

\* augmentations.py:96-111: sample is the draw of the uniform distribution,
\* disable_draw that of torch.rand(())
SampleCutmixCoeff(m, sample, disable_draw) ==
    LET coeff == IF m.sample_cutmix.kind = "tensor"
                 THEN m.sample_cutmix.value
                 ELSE sample
    IN  IF disable_draw < m.cutmix_disable_prob THEN One ELSE coeff

\* .to(torch.float32) of a tensor or of a scalar
ToFloat32(t) == [i \in DOMAIN t |-> RoundRatio(t[i], 1)]

\* A variant of the combined weights that uses the mixup coefficient of the
\* sample itself for the cut-in image.
CombinedWeights_Self(mixup_coeffs, permuted_mixup_coeffs, cutmix_coeffs) ==
    <<[i \in DOMAIN mixup_coeffs |->
          FMul(mixup_coeffs[i], cutmix_coeffs)],
      [i \in DOMAIN mixup_coeffs |->
          FMul(FSub(One, mixup_coeffs[i]), cutmix_coeffs)],
      [i \in DOMAIN mixup_coeffs |->
          FMul(permuted_mixup_coeffs[i], FSub(One, cutmix_coeffs))],
      [i \in DOMAIN mixup_coeffs |->
          FMul(FSub(One, mixup_coeffs[i]), FSub(One, cutmix_coeffs))]>>

\* augmentations.py:128-133
CombinedWeights(mixup_coeffs, permuted_mixup_coeffs, cutmix_coeffs) ==
    <<[i \in DOMAIN mixup_coeffs |->
          FMul(mixup_coeffs[i], cutmix_coeffs)],
      [i \in DOMAIN mixup_coeffs |->
          FMul(FSub(One, mixup_coeffs[i]), cutmix_coeffs)],
      [i \in DOMAIN mixup_coeffs |->
          FMul(permuted_mixup_coeffs[i], FSub(One, cutmix_coeffs))],
      [i \in DOMAIN mixup_coeffs |->
          FMul(FSub(One, permuted_mixup_coeffs[i]),
               FSub(One, cutmix_coeffs))]>>

\* augmentations.py:113-151; labels[i] is the label of sample i. A scalar
\* weight is broadcast over the samples.
MixLabels(m, labels, coeffs) ==
    IF m.use_mixup /\ m.use_cutmix THEN
        LET mixup_coeffs == ToFloat32(coeffs[1])
            permuted_mixup_coeffs == Permute(mixup_coeffs, 2)
            cutmix_coeffs == RoundRatio(coeffs[2], 1)
        IN  [raised |-> "none",
             all_labels |-> <<labels, Permute(labels, 1), Permute(labels, 2),
                              Permute(labels, 3)>>,
             weights |-> CombinedWeights(mixup_coeffs, permuted_mixup_coeffs,
                                         cutmix_coeffs)]
    ELSE IF m.use_mixup THEN
        LET mixup_coeffs == ToFloat32(coeffs[1])
        IN  [raised |-> "none",
             all_labels |-> <<labels, Permute(labels, 1)>>,
             weights |->
                <<mixup_coeffs,
                  [i \in DOMAIN labels |-> FSub(One, mixup_coeffs[i])]>>]
    ELSE IF m.use_cutmix THEN
        LET cutmix_coeffs == RoundRatio(coeffs[1], 1)
        IN  [raised |-> "none",
             all_labels |-> <<labels, Permute(labels, 2)>>,
             weights |->
                <<[i \in DOMAIN labels |-> cutmix_coeffs],
                  [i \in DOMAIN labels |-> FSub(One, cutmix_coeffs)]>>]
    ELSE [raised |-> "ValueError", all_labels |-> <<>>, weights |-> <<>>]

\* The opts objects AugmentationModel is constructed with: None, one lacking
\* cutmix_disable_prob, and three complete ones (lambdas in units).
CutmixOpts ==
    {[given |-> FALSE, attrs |-> {}],
     [given |-> TRUE, attrs |-> {"cutmix_lambda_low", "cutmix_lambda_high"},
      cutmix_lambda_low |-> 0, cutmix_lambda_high |-> One],
     [given |-> TRUE,
      attrs |-> {"cutmix_lambda_low", "cutmix_lambda_high",
                 "cutmix_disable_prob"},
      cutmix_lambda_low |-> 0, cutmix_lambda_high |-> One,
      cutmix_disable_prob |-> One \div 2],
     [given |-> TRUE,
      attrs |-> {"cutmix_lambda_low", "cutmix_lambda_high",
                 "cutmix_disable_prob"},
      cutmix_lambda_low |-> One \div 2, cutmix_lambda_high |-> One \div 2,
      cutmix_disable_prob |-> 0],
     [given |-> TRUE,
      attrs |-> {"cutmix_lambda_low", "cutmix_lambda_high",
                 "cutmix_disable_prob"},
      cutmix_lambda_low |-> One \div 4, cutmix_lambda_high |-> One \div 4,
      cutmix_disable_prob |-> One]}

\* A variant of the parameter test that also wants the two lambdas to differ.
HasCutmixParameters_Distinct(o) ==
    /\ o.given
    /\ "cutmix_lambda_low" \in o.attrs
    /\ "cutmix_lambda_high" \in o.attrs
    /\ "cutmix_disable_prob" \in o.attrs
    /\ o.cutmix_lambda_low # o.cutmix_lambda_high

\* augmentations.py:30-33
HasCutmixParameters(o) ==
    /\ o.given
    /\ "cutmix_lambda_low" \in o.attrs
    /\ "cutmix_lambda_high" \in o.attrs
    /\ "cutmix_disable_prob" \in o.attrs

NoSampler == [kind |-> "unset"]

\* augmentations.py:19-44: the fields of the new object, or the assertion
NewAugmentationModel(use_mixup, use_cutmix, o) ==
    IF ~(use_mixup \/ use_cutmix) THEN [raised |-> "AssertionError"]
    ELSE IF use_cutmix /\ ~HasCutmixParameters(o)
    THEN [raised |-> "AssertionError"]
    ELSE [raised |-> "none",
          use_mixup |-> use_mixup,
          use_cutmix |-> use_cutmix,
          sample_cutmix |->
              IF ~use_cutmix THEN NoSampler
              ELSE IF o.cutmix_lambda_low = o.cutmix_lambda_high
              THEN [kind |-> "tensor",
                    value |-> RoundRatio(o.cutmix_lambda_low, 1)]
              ELSE [kind |-> "uniform", low |-> o.cutmix_lambda_low,
                    high |-> o.cutmix_lambda_high],
          cutmix_disable_prob |->
              IF use_cutmix THEN o.cutmix_disable_prob ELSE 0]

NoArgs == [given |-> FALSE]

NoModel == [raised |-> "none", use_mixup |-> FALSE, use_cutmix |-> FALSE,
            sample_cutmix |-> NoSampler, cutmix_disable_prob |-> 0]
NoInput == [n |-> 0, height |-> 0, width |-> 0, np_type |-> "float",
            mixup_coeffs |-> <<>>]
NoCut == [called |-> FALSE]
NoMixed == [raised |-> "none", all_labels |-> <<>>, weights |-> <<>>]

AugIdle ==
    /\ aug_pc = "idle"
    /\ aug_err = "none"
    /\ aug_args = NoArgs
    /\ aug_model = NoModel
    /\ aug_input = NoInput
    /\ aug_cut = NoCut
    /\ aug_output = <<>>
    /\ aug_coeffs = <<>>
    /\ aug_mixed = NoMixed

AugInit ==
    /\ aug_pc = "new"
    /\ aug_err = "none"
    /\ aug_args = NoArgs
    /\ aug_model = NoModel
    /\ aug_input = NoInput
    /\ aug_cut = NoCut
    /\ aug_output = <<>>
    /\ aug_coeffs = <<>>
    /\ aug_mixed = NoMixed

\* augmentations.py:19-44
Construct ==
    /\ aug_pc = "new"
    /\ \E use_mixup \in BOOLEAN, use_cutmix \in BOOLEAN, o \in CutmixOpts :
          LET m == NewAugmentationModel(use_mixup, use_cutmix, o)
          IN  /\ aug_args' = [given |-> TRUE, use_mixup |-> use_mixup,
                              use_cutmix |-> use_cutmix, opts |-> o]
              /\ IF m.raised # "none"
                 THEN /\ aug_pc' = "failed"
                      /\ aug_err' = m.raised
                      /\ aug_model' = aug_model
                 ELSE /\ aug_pc' = "constructed"
                      /\ aug_err' = aug_err
                      /\ aug_model' = m
    /\ UNCHANGED <<aug_input, aug_cut, aug_output, aug_coeffs, aug_mixed>>

\* The draws of random_generator.beta the pipeline is run on: 1/4, which the
\* reflection turns into 3/4, and 1/2, which it keeps.
MixupDraws == {One \div 4, One \div 2}

\* The draws of torch.rand(()) the disable test is run on.
DisableDraws == {0, One \div 2}

\* The draws of torch.rand((1,)) for the centre of the box the pipeline is
\* run on: 0, 1/2 and the largest float below 1.
RandDraws == {0, One \div 2, One - 2}

\* The draws of the uniform distribution over [low, high).
UniformDraws(low, high) ==
    {x \in {0, One \div 4, One \div 2, One \div 2 + One \div 4} :
        low <= x /\ x < high}

Shapes(maxn) == [n : 1 .. maxn, height : 1 .. MaxDim, width : 1 .. MaxDim]

NpTypes == {"float16", "float"}

\* train.py:102-103, 211-223: the host draws the mixup coefficients
Augment ==
    /\ aug_pc = "constructed"
    /\ \E shape \in Shapes(MaxBatch), np_type \in NpTypes :
          \E xs \in [Indices(shape.n) -> MixupDraws] :
              aug_input' = GetAugmentedSamples(aug_model.use_mixup, shape,
                                               np_type, xs)
    /\ aug_pc' = "sampled"
    /\ UNCHANGED <<aug_err, aug_args, aug_model, aug_cut, aug_output, aug_coeffs,
                   aug_mixed>>

\* The draws forward makes on the device.
DeviceDraws(m) ==
    [sample : IF m.sample_cutmix.kind = "uniform"
              THEN UniformDraws(m.sample_cutmix.low, m.sample_cutmix.high)
              ELSE {0},
     disable_draw : DisableDraws, rand_x : RandDraws, rand_y : RandDraws]

\* augmentations.py:46-63 (train.py:44). aug_cut records the call of _cutmix.
ForwardStep ==
    /\ aug_pc = "sampled"
    /\ \E batch0 \in {InputBatch(aug_input)} :
          \E batch \in {IF aug_model.use_mixup
                        THEN Mixup(batch0, aug_input.mixup_coeffs)
                        ELSE batch0} :
              LET coeffs == IF aug_model.use_mixup
                            THEN <<aug_input.mixup_coeffs>>
                            ELSE <<>>
              IN  IF aug_model.use_cutmix
                  THEN \E d \in DeviceDraws(aug_model) :
                          \E cut \in
                                {Cutmix(batch,
                                        SampleCutmixCoeff(aug_model, d.sample,
                                                          d.disable_draw),
                                        d.rand_x, d.rand_y)} :
                              /\ aug_output' = cut.batch
                              /\ aug_coeffs' = coeffs \o <<cut.coeff>>
                              /\ aug_cut' =
                                    [called |-> TRUE,
                                     disable_draw |-> d.disable_draw,
                                     coeff_in |->
                                         SampleCutmixCoeff(aug_model,
                                                           d.sample,
                                                           d.disable_draw),
                                     batch_in |-> batch,
                                     mask |-> cut.mask,
                                     coeff_out |-> cut.coeff]
                  ELSE /\ aug_output' = batch
                       /\ aug_coeffs' = coeffs
                       /\ aug_cut' = NoCut
    /\ aug_pc' = "forwarded"
    /\ UNCHANGED <<aug_err, aug_args, aug_model, aug_input, aug_mixed>>

\* The labels of the batch: sample i has label i.
Labels(n) == [i \in Indices(n) |-> i]

\* augmentations.py:113-151 (train.py:56)
MixLabelsStep ==
    /\ aug_pc = "forwarded"
    /\ LET r == MixLabels(aug_model, Labels(aug_input.n), aug_coeffs)
       IN  /\ aug_mixed' = r
           /\ aug_err' = r.raised
           /\ aug_pc' = IF r.raised = "none" THEN "mixed" ELSE "failed"
    /\ UNCHANGED <<aug_args, aug_model, aug_input, aug_cut, aug_output,
                   aug_coeffs>>

(***************************************************************************)
(* The samplers and mix_labels as functions of their inputs: every draw of *)
(* the generator and every cutmix coefficient of [0, 1].                   *)
(***************************************************************************)
MixModels ==
    {NewAugmentationModel(um, uc, o) :
        um \in BOOLEAN, uc \in BOOLEAN,
        o \in {c \in CutmixOpts : HasCutmixParameters(c)
                                   /\ c.cutmix_disable_prob = 0}}
    \ {[raised |-> "AssertionError"]}

MixInit ==
    /\ aug_pc = "constructed"
    /\ aug_err = "none"
    /\ aug_args = NoArgs
    /\ aug_model \in MixModels
    /\ aug_input = NoInput
    /\ aug_cut = NoCut
    /\ aug_output = <<>>
    /\ aug_coeffs = <<>>
    /\ aug_mixed = NoMixed

\* sample_mixup_coefficients on every array of draws of [0, 1]
SampleAny ==
    /\ aug_pc = "constructed"
    /\ \E n \in 1 .. MaxMixBatch, np_type \in NpTypes :
          \E xs \in [Indices(n) -> 0 .. One] :
              aug_input' =
                  GetAugmentedSamples(aug_model.use_mixup,
                                      [n |-> n, height |-> 1, width |-> 1],
                                      np_type, xs)
    /\ aug_pc' = "sampled"
    /\ UNCHANGED <<aug_err, aug_args, aug_model, aug_cut, aug_output, aug_coeffs,
                   aug_mixed>>

\* mix_labels on the sampled mixup coefficients and every cutmix coefficient
MixLabelsAny ==
    /\ aug_pc = "sampled"
    /\ \E cutmix_coeff \in FloatsIn(0, One) :
          LET coeffs ==
                  (IF aug_model.use_mixup THEN <<aug_input.mixup_coeffs>>
                   ELSE <<>>)
                  \o (IF aug_model.use_cutmix THEN <<cutmix_coeff>>
                      ELSE <<>>)
              r == MixLabels(aug_model, Labels(aug_input.n), coeffs)
          IN  /\ aug_coeffs' = coeffs
              /\ aug_mixed' = r
              /\ aug_err' = r.raised
              /\ aug_pc' = IF r.raised = "none" THEN "mixed" ELSE "failed"
    /\ UNCHANGED <<aug_args, aug_model, aug_input, aug_cut, aug_output>>

(***************************************************************************)
(* _sample_cutmix_coeff and _cutmix as functions of their inputs: every    *)
(* draw of torch.rand, every sample of the distribution and every image    *)
(* height and width.                                                       *)
(***************************************************************************)
CutModels == {m \in {NewAugmentationModel(FALSE, TRUE, o) : o \in CutmixOpts} :
                 m.raised = "none"}

CutInit ==
    /\ aug_pc = "constructed"
    /\ aug_err = "none"
    /\ aug_args = NoArgs
    /\ aug_model \in CutModels
    /\ aug_input = NoInput
    /\ aug_cut = NoCut
    /\ aug_output = <<>>
    /\ aug_coeffs = <<>>
    /\ aug_mixed = NoMixed

\* _sample_cutmix_coeff on every sample of [low, high) and every disable draw
SampleCutmixCoeffAny ==
    /\ aug_pc = "constructed"
    /\ \E disable_draw \in FloatsIn(0, One - 1),
          sample \in IF aug_model.sample_cutmix.kind = "uniform"
                     THEN FloatsIn(aug_model.sample_cutmix.low,
                                   aug_model.sample_cutmix.high - 1)
                     ELSE {0} :
          aug_cut' = [called |-> FALSE,
                      disable_draw |-> disable_draw,
                      coeff_in |-> SampleCutmixCoeff(aug_model, sample,
                                                     disable_draw)]
    /\ aug_pc' = "coeff"
    /\ UNCHANGED <<aug_err, aug_args, aug_model, aug_input, aug_output, aug_coeffs,
                   aug_mixed>>

\* _cutmix on the sampled coefficient, a batch of MaxBatch images of every
\* height and width, and every draw of the centre
CutmixAny ==
    /\ aug_pc = "coeff"
    /\ \E height \in 1 .. MaxDim, width \in 1 .. MaxDim :
          \E in \in {GetAugmentedSamples(FALSE,
                                         [n |-> MaxBatch, height |-> height,
                                          width |-> width],
                                         "float", <<>>)} :
              \E batch \in {InputBatch(in)},
                 rand_x \in FloatsIn(0, One - 1),
                 rand_y \in FloatsIn(0, One - 1) :
                  \E cut \in {Cutmix(batch, aug_cut.coeff_in, rand_x,
                                     rand_y)} :
                      /\ aug_input' = in
                      /\ aug_output' = cut.batch
                      /\ aug_coeffs' = <<cut.coeff>>
                      /\ aug_cut' = [called |-> TRUE,
                                     disable_draw |-> aug_cut.disable_draw,
                                     coeff_in |-> aug_cut.coeff_in,
                                     batch_in |-> batch,
                                     mask |-> cut.mask,
                                     coeff_out |-> cut.coeff]
    /\ aug_pc' = "cut"
    /\ UNCHANGED <<aug_err, aug_args, aug_model, aug_mixed>>

\* The values the variables of the machine that is not running are parked at.
TrainIdle ==
    /\ opts = [epoch |-> 0]
    /\ iterations_per_epoch = 0
    /\ validation_function = FALSE
    /\ pc = "idle"
    /\ err = "none"
    /\ epoch = 0
    /\ batch_idx = 0
    /\ lr_scheduler = 0
    /\ optimizer = [lr |-> 0, loss_scaling |-> 0]
    /\ device = optimizer
    /\ old_lr = 0
    /\ old_loss_scaling = 0
    /\ new_loss_scaling = 0
    /\ bar = "none"
    /\ metrics = <<0, 0>>
    /\ aggregated_loss = "unbound"
    /\ aggregated_acc = "unbound"
    /\ total_sample = 0
    /\ steps_run = 0
    /\ compiled = FALSE
    /\ last_batch = NoBatch
    /\ logs_this_epoch = 0
    /\ checkpoints = {}

DistIdle ==
    /\ topology = [hosts |-> 0, local_size |-> 0]
    /\ dist_opts = [epoch |-> 0]
    /\ dist_pc = <<>>
    /\ dist_epoch = <<>>
    /\ dist_bar = <<>>
    /\ dist_saved = {}

(***************************************************************************)
(* Spec: one process running train().                                      *)
(***************************************************************************)
Init == TrainInit /\ DistIdle /\ AugIdle

Next ==
    \/ EpochStart /\ UNCHANGED <<dvars, avars>>
    \/ TrainBatch /\ UNCHANGED <<dvars, avars>>
    \/ EpochEnd /\ UNCHANGED <<dvars, avars>>

Spec == Init /\ [][Next]_vars

(***************************************************************************)
(* SpecDist: the processes of a distributed run.                           *)
(***************************************************************************)
InitDist == DistInit /\ TrainIdle /\ AugIdle

NextDist ==
    \/ \E r \in Ranks(topology) :
          DistRunEpoch(r) /\ UNCHANGED <<tvars, avars>>
    \/ DistSyncMetrics /\ UNCHANGED <<tvars, avars>>
    \/ \E r \in Ranks(topology) : DistSave(r) /\ UNCHANGED <<tvars, avars>>

SpecDist == InitDist /\ [][NextDist]_vars

(***************************************************************************)
(* SpecAug: the augmentation pipeline of one batch.                        *)
(***************************************************************************)
InitAug == AugInit /\ TrainIdle /\ DistIdle

NextAug ==
    \/ Construct /\ UNCHANGED <<tvars, dvars>>
    \/ Augment /\ UNCHANGED <<tvars, dvars>>
    \/ ForwardStep /\ UNCHANGED <<tvars, dvars>>
    \/ MixLabelsStep /\ UNCHANGED <<tvars, dvars>>

SpecAug == InitAug /\ [][NextAug]_vars

(***************************************************************************)
(* SpecMix: the coefficient sampler and mix_labels on all their inputs.    *)
(***************************************************************************)
InitMix == MixInit /\ TrainIdle /\ DistIdle

NextMix ==
    \/ SampleAny /\ UNCHANGED <<tvars, dvars>>
    \/ MixLabelsAny /\ UNCHANGED <<tvars, dvars>>

SpecMix == InitMix /\ [][NextMix]_vars

(***************************************************************************)
(* SpecCut: the cutmix coefficient sampler and _cutmix on all their        *)
(* inputs.                                                                 *)
(***************************************************************************)
InitCut == CutInit /\ TrainIdle /\ DistIdle

NextCut ==
    \/ SampleCutmixCoeffAny /\ UNCHANGED <<tvars, dvars>>
    \/ CutmixAny /\ UNCHANGED <<tvars, dvars>>

SpecCut == InitCut /\ [][NextCut]_vars

(***************************************************************************)
(* Properties of train().                                                  *)
(***************************************************************************)

\* The largest value of the loss-scaling schedule.
MaxScheduled(o) == o.initial_loss_scaling * Pow2(NumLossScalingSteps(o) - 1)

\* The epoch loop has been entered for the current epoch.
InEpoch == pc \in {"batch", "epoch_end"}

\* C2: the loss scaling scheduled for an epoch is initial_loss_scaling at
\* epoch 1 and is doubled once for each boundary i * (epoch // num_steps) + 1,
\* i = 1 .. num_steps - 1, that the epoch counter has reached since.
C2_ScheduleAsStated ==
    InEpoch =>
        new_loss_scaling =
            opts.initial_loss_scaling *
            Pow2(Cardinality(
                {i \in 1 .. (NumLossScalingSteps(opts) - 1) :
                    LossScalingBoundary(opts, i) \in 2 .. epoch}))

\* An iteration of the batch loop has just completed.
AfterBatch ==
    /\ last_batch.completed
    /\ last_batch.epoch = epoch
    /\ \/ pc = "batch" /\ batch_idx = last_batch.batch_idx + 1
       \/ pc = "epoch_end"

\* C3: a completed iteration called setOptimizer iff the scheduler's learning
\* rate or the scheduled loss scaling differed from what the runtime held (the
\* last pushed values), and after it the runtime holds both current values.
C3_PushIffChanged ==
    AfterBatch =>
        /\ last_batch.pushed <=>
              (\/ last_batch.sched_lr # last_batch.dev_before.lr
               \/ last_batch.sched_ls # last_batch.dev_before.loss_scaling)
        /\ device.lr = last_batch.sched_lr
        /\ device.loss_scaling = last_batch.sched_ls
        /\ device.lr = lr_scheduler
        /\ device.loss_scaling = new_loss_scaling
        /\ ~last_batch.pushed => device = last_batch.dev_before

\* C3 witness: setOptimizer was called for a loss-scaling change alone.
C3_Witness ==
    /\ AfterBatch
    /\ last_batch.pushed
    /\ last_batch.sched_lr = last_batch.dev_before.lr
    /\ last_batch.sched_ls # last_batch.dev_before.loss_scaling
    /\ device.loss_scaling = last_batch.sched_ls

\* Epoch e is over: its checkpoint step has been reached and left.
EpochOver(e) ==
    \/ e < epoch
    \/ e = epoch /\ pc = "done"
    \/ e = epoch /\ pc = "error" /\ err = "UnboundLocalError"

\* C5: every epoch that ends leaves no checkpoint when checkpoint_path is empty
\* and otherwise, on the designated process, exactly one checkpoint, named
\* {model}_{data}_{epoch}.pt, holding the epoch and the running loss and
\* accuracy as of the last batch of that epoch.
C5_CheckpointEveryEpoch ==
    \A e \in 1 .. MaxEpoch :
        EpochOver(e) =>
            LET written == {c \in checkpoints : c.epoch = e}
                designated ==
                    ~opts.use_popdist \/ opts.popdist_local_rank = 0
            IN  IF opts.checkpoint_path = "" \/ ~designated
                THEN written = {}
                ELSE written =
                        {[name |-> <<opts.model, opts.data, e>>,
                          epoch |-> e,
                          loss |-> <<e, iterations_per_epoch>>,
                          train_accuracy |-> <<e, iterations_per_epoch>>]}

\* C6: the loss scaling held by the optimizer and by the runtime never exceeds
\* opts.loss_scaling; the largest scheduled value has a boundary epoch within
\* 1 .. opts.epoch, is scheduled from that epoch on, and is what the optimizer
\* holds when training is done.
C6_LossScalingCapped ==
    /\ optimizer.loss_scaling <= opts.loss_scaling
    /\ device.loss_scaling <= opts.loss_scaling
    /\ new_loss_scaling <= opts.loss_scaling
    /\ \E e \in 1 .. opts.epoch :
          /\ e \in DOMAIN LossScalingSteps(opts)
          /\ LossScalingSteps(opts)[e] = MaxScheduled(opts)
          /\ (InEpoch /\ epoch >= e) => new_loss_scaling = MaxScheduled(opts)
    /\ pc = "done" =>
          /\ optimizer.loss_scaling = MaxScheduled(opts)
          /\ device.loss_scaling = MaxScheduled(opts)

\* C6 witness: training is done with a ratio of 3 (no power of two); the
\* optimizer holds twice the initial value, below the configured maximum.
C6_Witness ==
    /\ pc = "done"
    /\ opts.loss_scaling \div opts.initial_loss_scaling = 3
    /\ optimizer.loss_scaling = 2 * opts.initial_loss_scaling
    /\ optimizer.loss_scaling < opts.loss_scaling
    /\ device.loss_scaling = optimizer.loss_scaling

\* C8: train() ends early only under compile_only (at the first batch, with
\* no step run) or profile (after exactly one step), with no metric saved,
\* nothing pushed and no checkpoint; otherwise it runs every batch of every
\* epoch.
C8_EarlyExitOnlyCompileOrProfile ==
    /\ pc = "exited" =>
          /\ opts.compile_only \/ opts.profile
          /\ opts.compile_only => compiled /\ steps_run = 0
          /\ (opts.profile /\ ~opts.compile_only) => steps_run = 1
          /\ epoch = 1 /\ batch_idx = 0
          /\ metrics = <<0, 0>>
          /\ ~last_batch.saved /\ ~last_batch.pushed
          /\ device = [lr |-> 1, loss_scaling |-> opts.initial_loss_scaling]
          /\ checkpoints = {}
    /\ (~opts.compile_only /\ ~opts.profile /\ pc \in {"done", "error"}) =>
          /\ pc = "done"
          /\ steps_run = opts.epoch * iterations_per_epoch

\* C9: with metrics enabled and a validation function, an iteration runs the
\* validation iff it is a logging point and epoch % validation_frequency = 0;
\* a logging point without validation logs validation_accuracy 0.0.
C9_ValidationAtLoggingPoints ==
    (last_batch.stepped /\ ~opts.disable_metrics /\ validation_function
        /\ ~opts.compile_only /\ ~opts.profile) =>
        LET period == iterations_per_epoch \div opts.logs_per_epoch
            logging_point ==
                period > 0 /\ (last_batch.batch_idx + 1) % period = 0
        IN  /\ last_batch.validated <=>
                  (/\ logging_point
                   /\ last_batch.epoch % opts.validation_frequency = 0)
            /\ last_batch.logged <=> logging_point
            /\ last_batch.validated => last_batch.logged
            /\ (last_batch.logged /\ ~last_batch.validated) =>
                  last_batch.validation_accuracy = "zero"
            /\ last_batch.validated =>
                  last_batch.validation_accuracy = "measured"

\* C9 witness: validation ran at a logging point in the middle of epoch 2 with
\* validation_frequency 2, after epoch 1 logged 0.0 at its logging points.
C9_Witness ==
    /\ validation_function
    /\ opts.validation_frequency = 2
    /\ last_batch.validated
    /\ last_batch.epoch = 2
    /\ last_batch.batch_idx + 1 < iterations_per_epoch

(***************************************************************************)
(* Properties of the distributed run.                                      *)
(***************************************************************************)

\* C4: with a checkpoint path configured, at most one process writes the
\* checkpoint of an epoch, and that process is the one showing the progress
\* bar.
C4_SingleCheckpointWriter ==
    \A e \in 1 .. MaxDistEpoch :
        LET writers == {c.rank : c \in {d \in dist_saved : d.epoch = e}}
        IN  /\ Cardinality(writers) <= 1
            /\ \A r \in writers : dist_bar[r] = "tqdm"

(***************************************************************************)
(* Properties of the augmentation model.                                   *)
(***************************************************************************)
Abs(x) == IF x < 0 THEN -x ELSE x

RECURSIVE SumTo(_, _, _)
SumTo(weights, i, k) ==
    IF k = 0 THEN 0 ELSE weights[k][i] + SumTo(weights, i, k - 1)

\* The sum, in units, of the weights mix_labels returned for sample i
WeightSum(i) == SumTo(aug_mixed.weights, i, Len(aug_mixed.weights))

Mixed == aug_pc = "mixed"

\* C1 as stated: in each of the three modes the weights mix_labels returns
\* sum to exactly 1 for each sample.
C1_WeightsSumExactlyOne ==
    Mixed => \A i \in Indices(aug_input.n) : WeightSum(i) = One

\* C1 as the code has it: mix_labels returns 2 weights per sample in the
\* modes with one technique and 4 with both; with mixup only they sum to
\* exactly 1, and with a cutmix coefficient they sum to 1 up to the
\* rounding of the float products and differences, less than
\* 2^-(MantissaBits - 1) away from 1 (2^-23 in float32).
C1_WeightsSumToOneRounded ==
    Mixed =>
        /\ Len(aug_mixed.weights) =
               IF aug_model.use_mixup /\ aug_model.use_cutmix THEN 4 ELSE 2
        /\ Len(aug_mixed.all_labels) = Len(aug_mixed.weights)
        /\ \A i \in Indices(aug_input.n) :
              /\ ~aug_model.use_cutmix => WeightSum(i) = One
              /\ Abs(WeightSum(i) - One) * Pow2(MantissaBits - 1) < One

\* A batch of three mixed with both techniques, one sample's weights summing
\* to exactly 1 and another's not.
C1_Witness ==
    /\ Mixed
    /\ aug_model.use_mixup /\ aug_model.use_cutmix
    /\ aug_input.n = 3
    /\ \E i \in Indices(aug_input.n) : WeightSum(i) = One
    /\ \E i \in Indices(aug_input.n) : WeightSum(i) # One

\* C7: a disable draw below cutmix_disable_prob makes the sampled
\* coefficient exactly 1.0, and _cutmix called with coefficient 1.0 sets no
\* pixel of the mask, returns the batch it was given and returns the
\* coefficient 1.0, whatever the height, the width and the centre draws.
C7_DisabledCutmixIsIdentity ==
    /\ aug_pc \in {"coeff", "cut"}
        /\ aug_cut.disable_draw < aug_model.cutmix_disable_prob
           => aug_cut.coeff_in = One
    /\ aug_cut.called /\ aug_cut.coeff_in = One =>
           /\ \A y \in DOMAIN aug_cut.mask :
                 \A x \in DOMAIN aug_cut.mask[y] : ~aug_cut.mask[y][x]
           /\ aug_output = aug_cut.batch_in
           /\ aug_cut.coeff_out = One

\* Cutmix disabled by the draw, with a sampler that does not return 1.0, on
\* a batch of more than two images of more than one pixel that the roll by
\* two would change.
C7_Witness ==
    /\ aug_cut.called
    /\ aug_cut.disable_draw < aug_model.cutmix_disable_prob
    /\ aug_model.sample_cutmix.kind = "uniform"
    /\ aug_input.n > 2 /\ aug_input.height > 1 /\ aug_input.width > 1
    /\ aug_output # Permute(aug_output, 2)
    /\ aug_output = aug_cut.batch_in

\* C10: every coefficient sample_mixup_coefficients returns is at least 0.5
\* and at most 1.0, whatever the draws and the batch size.
C10_MixupCoefficientsInRange ==
    aug_pc # "constructed" /\ aug_model.use_mixup =>
        /\ DOMAIN aug_input.mixup_coeffs = Indices(aug_input.n)
        /\ \A i \in Indices(aug_input.n) :
              /\ 2 * aug_input.mixup_coeffs[i] >= One
              /\ aug_input.mixup_coeffs[i] <= One

\* A sampled batch of three coefficients: 0.5, 1.0 and one between them.
C10_Witness ==
    /\ aug_pc = "sampled"
    /\ aug_model.use_mixup
    /\ aug_input.n = 3
    /\ \E i, j, k \in Indices(aug_input.n) :
          /\ 2 * aug_input.mixup_coeffs[i] = One
          /\ aug_input.mixup_coeffs[j] = One
          /\ 2 * aug_input.mixup_coeffs[k] > One
          /\ aug_input.mixup_coeffs[k] < One

\* The coefficient list forward returns for a model with the given flags
CoeffsFor(use_mixup, use_cutmix, n) ==
    (IF use_mixup THEN <<[i \in Indices(n) |-> One]>> ELSE <<>>)
    \o (IF use_cutmix THEN <<One>> ELSE <<>>)

\* The constructor arguments the claim says are rejected
Rejected(args) ==
    \/ ~args.use_mixup /\ ~args.use_cutmix
    \/ /\ args.use_cutmix
       /\ \/ ~args.opts.given
          \/ \E name \in {"cutmix_lambda_low", "cutmix_lambda_high",
                           "cutmix_disable_prob"} :
                name \notin args.opts.attrs

\* C11: constructing AugmentationModel fails an assertion when both flags
\* are false, or when use_cutmix is true and opts is None or lacks one of the
\* three cutmix parameters, and succeeds with the given flags otherwise;
\* mix_labels raises ValueError exactly when both flags are false, which no
\* constructed model reaches.
C11_RejectedWithoutAugmentation ==
    /\ aug_args.given =>
           IF Rejected(aug_args)
           THEN aug_pc = "failed" /\ aug_err = "AssertionError"
           ELSE /\ aug_pc # "failed"
                /\ aug_err = "none"
                /\ aug_model.raised = "none"
                /\ aug_model.use_mixup = aug_args.use_mixup
                /\ aug_model.use_cutmix = aug_args.use_cutmix
    /\ aug_err # "ValueError"
    /\ aug_pc = "mixed" =>
           /\ aug_mixed.raised = "none"
           /\ \A use_mixup \in BOOLEAN, use_cutmix \in BOOLEAN :
                 (MixLabels([use_mixup |-> use_mixup,
                             use_cutmix |-> use_cutmix],
                            Labels(aug_input.n),
                            CoeffsFor(use_mixup, use_cutmix,
                                      aug_input.n)).raised = "ValueError")
                 <=> (~use_mixup /\ ~use_cutmix)

\* A construction with use_cutmix and opts that lack cutmix_disable_prob
\* only, rejected by the assertion.
C11_Witness ==
    /\ aug_pc = "failed"
    /\ aug_err = "AssertionError"
    /\ aug_args.given
    /\ aug_args.use_cutmix
    /\ aug_args.opts.given
    /\ aug_args.opts.attrs = {"cutmix_lambda_low", "cutmix_lambda_high"}

\* The index k places before i, modulo n
Before(i, k, n) == (i + k * n - k) % n

\* c * x_a + (1 - c) * x_b as a combination of the n source images
Blend(c, a, b, n) ==
    [j \in Indices(n) |->
        (IF j = a THEN c ELSE 0) + (IF j = b THEN One - c ELSE 0)]

\* What the claim says pixel (y, x) of image i is
ClaimedPixel(i, y, x) ==
    LET n == aug_input.n
        c == aug_input.mixup_coeffs
        inside == aug_model.use_cutmix /\ aug_cut.mask[y][x]
        k == IF inside THEN Before(i, 2, n) ELSE i
    IN  IF aug_model.use_mixup
        THEN Blend(c[k], k, Before(k, 1, n), n)
        ELSE Blend(One, k, k, n)

\* What the claim says the label components of sample i are: the indices of
\* the samples the labels are taken from, and their weights
ClaimedLabels(i) ==
    LET n == aug_input.n
        c == aug_input.mixup_coeffs
        L == aug_cut.coeff_out
    IN  IF aug_model.use_mixup /\ aug_model.use_cutmix
        THEN <<<<i, FMul(c[i], L)>>,
               <<Before(i, 1, n), FMul(FSub(One, c[i]), L)>>,
               <<Before(i, 2, n),
                 FMul(c[Before(i, 2, n)], FSub(One, L))>>,
               <<Before(i, 3, n),
                 FMul(FSub(One, c[Before(i, 2, n)]), FSub(One, L))>>>>
        ELSE IF aug_model.use_mixup
        THEN <<<<i, c[i]>>, <<Before(i, 1, n), FSub(One, c[i])>>>>
        ELSE <<<<i, L>>, <<Before(i, 2, n), FSub(One, L)>>>>

\* The pixels of the mask that are set
MaskSet == {p \in Indices(aug_input.height) \X Indices(aug_input.width) :
               aug_cut.mask[p[1]][p[2]]}

\* C12: the label components mix_labels returns match the composition of
\* the image forward produced, for every sample i (indices modulo n): with
\* mixup, c_i of x_i and 1 - c_i of x_{i-1}; with cutmix, the image of
\* sample i - 2 inside the mask; the labels and weights as the claim lists
\* them (products and differences in float32), with L = 1 - mean(mask) the
\* coefficient _cutmix returned and the coefficient list ordered
\* [mixup, cutmix].
C12_LabelsMatchImage ==
    Mixed =>
        /\ aug_coeffs =
               (IF aug_model.use_mixup THEN <<aug_input.mixup_coeffs>>
                ELSE <<>>)
               \o (IF aug_model.use_cutmix THEN <<aug_cut.coeff_out>>
                   ELSE <<>>)
        /\ aug_model.use_cutmix =>
               aug_cut.coeff_out =
                   FSub(One, RoundRatio(Cardinality(MaskSet) * One,
                                        aug_input.height * aug_input.width))
        /\ \A i \in Indices(aug_input.n) :
              /\ \A y \in Indices(aug_input.height) :
                    \A x \in Indices(aug_input.width) :
                        aug_output[i][y][x] = ClaimedPixel(i, y, x)
              /\ \A claimed \in {ClaimedLabels(i)} :
                    /\ Len(aug_mixed.all_labels) = Len(claimed)
                    /\ Len(aug_mixed.weights) = Len(claimed)
                    /\ \A k \in DOMAIN claimed :
                          /\ aug_mixed.all_labels[k][i]
                                 = Labels(aug_input.n)[claimed[k][1]]
                          /\ aug_mixed.weights[k][i] = claimed[k][2]

\* A batch of four mixed with both techniques, with unequal mixup
\* coefficients and a mask that covers a part of the image: the image of a
\* sample is made of four different source images.
C12_Witness ==
    /\ Mixed
    /\ aug_model.use_mixup /\ aug_model.use_cutmix
    /\ aug_input.n = 4
    /\ aug_input.mixup_coeffs[0] # aug_input.mixup_coeffs[2]
    /\ aug_input.mixup_coeffs[2] < One
    /\ MaskSet # {}
    /\ Cardinality(MaskSet) < aug_input.height * aug_input.width
    /\ \E p \in MaskSet, y \in Indices(aug_input.height),
          x \in Indices(aug_input.width) :
          /\ ~aug_cut.mask[y][x]
          /\ \A j \in Indices(4) :
                aug_output[2][p[1]][p[2]][j] + aug_output[2][y][x][j] > 0

\* C13: the host's old_loss_scaling equals optimizer.loss_scaling (and what
\* the device holds) at the start of every batch, and old_lr is the learning
\* rate last pushed with setOptimizer, so the loss_scaling and learning_rate
\* logged at a logging point are the ones the training step ran with.
C13_LoggedValuesAreHeld ==
    /\ pc = "batch" =>
           /\ old_loss_scaling = optimizer.loss_scaling
           /\ old_loss_scaling = device.loss_scaling
           /\ old_lr = device.lr
    /\ last_batch.logged =>
           /\ last_batch.stepped
           /\ last_batch.logged_ls = last_batch.dev_before.loss_scaling
           /\ last_batch.logged_lr = last_batch.dev_before.lr

\* A logging point after both a loss scaling and a learning rate other than
\* the initial ones were pushed, while the scheduler has moved on.
C13_Witness ==
    /\ last_batch.logged
    /\ last_batch.logged_ls > opts.initial_loss_scaling
    /\ last_batch.logged_lr = 2
    /\ last_batch.sched_lr = 1

\* C14: every training step of an epoch runs with the loss scaling scheduled
\* for that epoch, the first batch of a boundary epoch included.
C14_ScheduledScalingHeldAllEpoch ==
    InEpoch /\ last_batch.stepped /\ last_batch.epoch = epoch =>
        last_batch.dev_before.loss_scaling = new_loss_scaling

\* C15: with metrics enabled, every epoch of a run that is neither
\* compile-only nor a profile run logs exactly opts.logs_per_epoch times,
\* whatever iterations_per_epoch and logs_per_epoch are, and the loop raises
\* nothing.
C15_LogsPerEpochEvents ==
    ~opts.disable_metrics /\ ~opts.compile_only /\ ~opts.profile =>
        /\ err = "none"
        /\ pc = "epoch_end" => logs_this_epoch = opts.logs_per_epoch

====
